---- MODULE Spec2Model ----
(***************************************************************************)
(* A model of the forecasting core of phase_a_demo: the recency-weighted   *)
(* base forecaster and the context adjuster (phase_c_smart_predictions),   *)
(* the injury overlay (phase_d_injury_data), the SQLite response cache     *)
(* (phase_b_data_collectors) and the value-matching pass (phase_b_api).    *)
(*                                                                         *)
(* Numbers.  The Python code computes in binary floating point.  The model *)
(* computes in exact rational arithmetic: a number is a pair <<n, d>> in   *)
(* lowest terms with d > 0.  round(x, k) is modelled as rounding to k      *)
(* decimals with ties to even (Python 3's rule on the exact value).  The   *)
(* one irrational quantity, the standard deviation, is carried as a surd   *)
(* [a, x] standing for a - sqrt(x).                                        *)
(***************************************************************************)
EXTENDS Integers, Sequences, FiniteSets, TLC

VARIABLES
    games,             \* the history handed to the predictor, most recent first
    args,              \* the other arguments of the prediction call
    espn,              \* the injury report the upstream page serves
    injuries_by_team,  \* SmartPredictorWithInjuries.injuries_by_team
    result,            \* what the last prediction call returned
    store,             \* the SQLite file nba_cache.db: table api_cache
    now,               \* time.time(), in ticks
    lastSet,           \* history: the last successful set of each key
    lookup,            \* what the last cache lookup returned
    request,           \* what the last cached request did and returned
    props,             \* the tuples the value-matching pass enumerates
    query,             \* min_edge and show_all of the value-bets request
    response,          \* what the value-matching pass returned
    clock,             \* time.time(): the tenths of a second past the tick
    last_request_time, \* NBAStatsAPI.last_request_time, in tenths of a second
    sent,              \* history: the times of the last two upstream requests
    op                 \* the operation that produced the current state

vars == <<games, args, espn, injuries_by_team, result, store, now, lastSet,
          lookup, request, props, query, response, clock, last_request_time,
          sent, op>>

----------------------------------------------------------------------------
(* Exact rational arithmetic *)

Abs(i) == IF i < 0 THEN -i ELSE i

Min2(a, b) == IF a < b THEN a ELSE b

RECURSIVE Gcd(_, _)
Gcd(a, b) == IF b = 0 THEN a ELSE Gcd(b, a % b)

\* the rational n/d in lowest terms, d > 0
R(n, d) ==
    LET s == IF d < 0 THEN -1 ELSE 1
        g == Gcd(Abs(n), Abs(d))
    IN  <<(s * n) \div g, (s * d) \div g>>

RInt(i) == <<i, 1>>

Zero == <<0, 1>>

RAdd(p, q) ==
    LET g == Gcd(p[2], q[2])
    IN  R(p[1] * (q[2] \div g) + q[1] * (p[2] \div g), p[2] * (q[2] \div g))

RNeg(p) == <<-p[1], p[2]>>

RSub(p, q) == RAdd(p, RNeg(q))

RMul(p, q) ==
    LET a == R(p[1], q[2])
        b == R(q[1], p[2])
    IN  <<a[1] * b[1], a[2] * b[2]>>

RAbs(p) == <<Abs(p[1]), p[2]>>

RLt(p, q) == p[1] * q[2] < q[1] * p[2]

RLe(p, q) == p[1] * q[2] <= q[1] * p[2]

RMax(p, q) == IF RLt(p, q) THEN q ELSE p

RMin(p, q) == IF RLt(q, p) THEN q ELSE p

\* floor(n / d) for d > 0 (TLA+'s \div rounds towards minus infinity)
Floor(p) == p[1] \div p[2]

\* the integer nearest to p, ties to the even one
RoundHalfEven(p) ==
    LET f == Floor(p)
        r2 == 2 * (p[1] - f * p[2])
    IN  IF r2 < p[2] THEN f
        ELSE IF r2 > p[2] THEN f + 1
        ELSE IF f % 2 = 0 THEN f ELSE f + 1

\* Python's round(x, 1) and round(x, 2)
Round1(p) == R(RoundHalfEven(RMul(p, RInt(10))), 10)

Round2(p) == R(RoundHalfEven(RMul(p, RInt(100))), 100)

RECURSIVE RSum(_)
RSum(s) == IF s = <<>> THEN Zero ELSE RAdd(Head(s), RSum(Tail(s)))

RECURSIVE ISum(_)
ISum(s) == IF s = <<>> THEN 0 ELSE Head(s) + ISum(Tail(s))

\* floor(sqrt(t)) by bisection on lo..hi, lo*lo <= t < (hi+1)*(hi+1)
RECURSIVE ISqrtIn(_, _, _)
ISqrtIn(t, lo, hi) ==
    IF lo = hi THEN lo
    ELSE LET mid == (lo + hi + 1) \div 2
         IN  IF mid * mid <= t THEN ISqrtIn(t, mid, hi)
             ELSE ISqrtIn(t, lo, mid - 1)

ISqrt(t) == ISqrtIn(t, 0, 4000)

----------------------------------------------------------------------------
(* Surds: [a, x] is the real number a - sqrt(x), a an integer, x a rational >= 0 *)

Surd(a, x) == [a |-> a, x |-> x]

SurdConst(a) == [a |-> a, x |-> Zero]

\* a - sqrt(x) > k
SurdGt(c, k) == c.a - k > 0 /\ RLt(c.x, RInt((c.a - k) * (c.a - k)))

\* a - sqrt(x) < k
SurdLt(c, k) == c.a - k < 0 \/ RLt(RInt((c.a - k) * (c.a - k)), c.x)

SurdPlus(c, k) == [a |-> c.a + k, x |-> c.x]

\* Python's max(k, c) and min(k, c): the first argument wins a tie
SurdMax(k, c) == IF SurdGt(c, k) THEN c ELSE SurdConst(k)

SurdMin(k, c) == IF SurdLt(c, k) THEN c ELSE SurdConst(k)

\* round(a - sqrt(x), 1): with s = sqrt(100 x) and j = floor(2 s), the nearest
\* integer to 10 a - s is 10 a - j/2 for even j, and for odd j it is
\* 10 a - (j+1)/2 unless 2 s = j exactly, a tie that goes to the even neighbour.
SurdRound1(c) ==
    LET n == c.x[1]
        d == c.x[2]
        t == 400 * (n \div d) + (400 * (n % d)) \div d
        exact == (400 * (n % d)) % d = 0
        j == ISqrt(t)
        m == j \div 2
        hi == 10 * c.a - m
    IN  IF j % 2 = 0 THEN R(hi, 10)
        ELSE IF exact /\ j * j = t /\ hi % 2 = 0 THEN R(hi, 10)
        ELSE R(hi - 1, 10)

----------------------------------------------------------------------------
(* Game records.  A record carries the field of the target category (val),  *)
(* the matchup descriptor and the minutes played.  val is a number, absent  *)
(* (the record has no such key) or bad (None or a non-numeric string).      *)

None == "None"

Num(v) == [k |-> "num", v |-> v]

Missing == [k |-> "missing", v |-> 0]

Bad == [k |-> "bad", v |-> 0]

Game(val, matchup, min) == [val |-> val, matchup |-> matchup, min |-> min]

Take(s, n) == SubSeq(s, 1, Min2(n, Len(s)))

\* float(g.get(stat, 0)) succeeds: an absent key reads as the default 0
FloatOfGetDefault0Ok(g) == g.val.k \in {"num", "missing"}

FloatOfGetDefault0(g) == IF g.val.k = "num" THEN g.val.v ELSE 0

\* g.get(stat) is not None and float() of it succeeds
FloatOfGetOk(g) == g.val.k = "num"

----------------------------------------------------------------------------
(* SmartPredictor *)

team_defensive_ratings ==
    [t \in {"ATL", "BOS", "BKN", "CHA", "CHI", "CLE", "DAL", "DEN", "DET",
            "GSW", "HOU", "IND", "LAC", "LAL", "MEM", "MIA", "MIL", "MIN",
            "NOP", "NYK", "OKC", "ORL", "PHI", "PHX", "POR", "SAC", "SAS",
            "TOR", "UTA", "WAS"} |->
        CASE t = "ATL" -> 112 [] t = "BOS" -> 108 [] t = "BKN" -> 114
          [] t = "CHA" -> 116 [] t = "CHI" -> 113 [] t = "CLE" -> 107
          [] t = "DAL" -> 110 [] t = "DEN" -> 111 [] t = "DET" -> 115
          [] t = "GSW" -> 112 [] t = "HOU" -> 109 [] t = "IND" -> 117
          [] t = "LAC" -> 111 [] t = "LAL" -> 113 [] t = "MEM" -> 110
          [] t = "MIA" -> 109 [] t = "MIL" -> 112 [] t = "MIN" -> 108
          [] t = "NOP" -> 118 [] t = "NYK" -> 108 [] t = "OKC" -> 106
          [] t = "ORL" -> 107 [] t = "PHI" -> 114 [] t = "PHX" -> 113
          [] t = "POR" -> 119 [] t = "SAC" -> 117 [] t = "SAS" -> 120
          [] t = "TOR" -> 115 [] t = "UTA" -> 118 [] t = "WAS" -> 121]

league_avg_rating == 112

\* BaseSample weighting the oldest record most (0.6 first, 1.0 last)
RECURSIVE BaseSampleReversed(_, _)
BaseSampleReversed(gs, i) ==
    IF gs = <<>> THEN <<>>
    ELSE LET rest == BaseSampleReversed(Tail(gs), i + 1)
         IN  IF FloatOfGetDefault0Ok(Head(gs))
             THEN <<[r |-> FloatOfGetDefault0(Head(gs)), w |-> 6 + i]>> \o rest
             ELSE rest

\* BaseSample giving the records kept the weights 1.0, 0.9, ... of their
\* places among the records kept
RECURSIVE BaseSampleReindexed(_, _)
BaseSampleReindexed(gs, i) ==
    IF gs = <<>> THEN <<>>
    ELSE IF FloatOfGetDefault0Ok(Head(gs))
         THEN <<[r |-> FloatOfGetDefault0(Head(gs)), w |-> 10 - i]>>
              \o BaseSampleReindexed(Tail(gs), i + 1)
         ELSE BaseSampleReindexed(Tail(gs), i)

\* the (value, weight) pairs _calculate_base collects from games[:5];
\* i is the 0-based position of Head(gs)
RECURSIVE BaseSample(_, _)
BaseSample(gs, i) ==
    IF gs = <<>> THEN <<>>
    ELSE LET rest == BaseSample(Tail(gs), i + 1)
         IN  IF FloatOfGetDefault0Ok(Head(gs))
             THEN <<[r |-> FloatOfGetDefault0(Head(gs)), w |-> 10 - i]>> \o rest
             ELSE rest

\* sum((x - avg) ** 2 for x in recent), avg = n/d, as an integer over d*d
RECURSIVE SqDevSum(_, _, _)
SqDevSum(sample, n, d) ==
    IF sample = <<>> THEN 0
    ELSE (Head(sample).r * d - n) * (Head(sample).r * d - n)
         + SqDevSum(Tail(sample), n, d)

calculate_base(gs, stat) ==
    LET sample == BaseSample(Take(gs, 5), 0)
        sumrw == ISum([i \in 1..Len(sample) |-> sample[i].r * sample[i].w])
        sumw == ISum([i \in 1..Len(sample) |-> sample[i].w])
        weighted_avg == R(sumrw, sumw)
        variance == R(SqDevSum(sample, weighted_avg[1], weighted_avg[2]),
                      weighted_avg[2] * weighted_avg[2] * Len(sample))
        \* 100 - std_dev * 5 = 100 - sqrt(25 * variance)
        confidence == SurdMax(50, Surd(100, RMul(RInt(25), variance)))
    IN  IF Len(sample) < 3
        THEN [ok |-> FALSE, base |-> Zero, confidence |-> SurdConst(0)]
        ELSE [ok |-> TRUE, base |-> weighted_avg, confidence |-> confidence]

opponent_adjustment(opponent, base_pred) ==
    LET opp_rating == IF opponent \in DOMAIN team_defensive_ratings
                      THEN team_defensive_ratings[opponent]
                      ELSE league_avg_rating
        rating_diff == opp_rating - league_avg_rating
        adjustment_pct == RMul(R(rating_diff, 5), R(2, 100))
    IN  RMul(base_pred, adjustment_pct)

\* the values of the home games ("vs." in matchup) and of the away games
\* ("@" in matchup) among gs
RECURSIVE VenueVals(_, _)
VenueVals(gs, venue) ==
    IF gs = <<>> THEN <<>>
    ELSE LET rest == VenueVals(Tail(gs), venue)
         IN  IF FloatOfGetOk(Head(gs)) /\ Head(gs).matchup = venue
             THEN <<Head(gs).val.v>> \o rest
             ELSE rest

home_away_adjustment(gs, stat, is_home) ==
    LET home_games == VenueVals(Take(gs, 10), "vs.")
        away_games == VenueVals(Take(gs, 10), "@")
        home_avg == R(ISum(home_games), Len(home_games))
        away_avg == R(ISum(away_games), Len(away_games))
        diff == RSub(home_avg, away_avg)
    IN  IF home_games # <<>> /\ away_games # <<>>
        THEN IF is_home THEN RMul(diff, R(1, 2)) ELSE RMul(RNeg(diff), R(1, 2))
        ELSE IF is_home THEN R(1, 2) ELSE R(-1, 2)

\* _rest_adjustment counting two days as well rested
rest_adjustment_from_two(days_rest, stat) ==
    IF days_rest = 0 THEN (IF stat = "PTS" THEN R(-2, 1) ELSE R(-5, 10))
    ELSE IF days_rest = 1 THEN (IF stat = "PTS" THEN R(-15, 10) ELSE R(-3, 10))
    ELSE IF days_rest >= 2 THEN (IF stat = "PTS" THEN R(5, 10) ELSE R(1, 10))
    ELSE Zero

rest_adjustment(days_rest, stat) ==
    IF days_rest = 0 THEN (IF stat = "PTS" THEN R(-2, 1) ELSE R(-5, 10))
    ELSE IF days_rest = 1 THEN (IF stat = "PTS" THEN R(-15, 10) ELSE R(-3, 10))
    ELSE IF days_rest >= 3 THEN (IF stat = "PTS" THEN R(5, 10) ELSE R(1, 10))
    ELSE Zero

\* the values float(g.get(stat, 0)) accepts among gs
RECURSIVE FormVals(_)
FormVals(gs) ==
    IF gs = <<>> THEN <<>>
    ELSE IF FloatOfGetDefault0Ok(Head(gs))
         THEN <<FloatOfGetDefault0(Head(gs))>> \o FormVals(Tail(gs))
         ELSE FormVals(Tail(gs))

form_adjustment(gs, stat) ==
    LET recent_3 == FormVals(Take(gs, 3))
        previous_3 == FormVals(SubSeq(gs, 4, Min2(6, Len(gs))))
        recent_avg == R(ISum(recent_3), Len(recent_3))
        previous_avg == R(ISum(previous_3), Len(previous_3))
        trend == RMul(RSub(recent_avg, previous_avg), R(3, 10))
        max_adj == IF stat = "PTS" THEN R(2, 1) ELSE R(5, 10)
    IN  IF Len(gs) < 6 THEN Zero
        ELSE IF Len(recent_3) < 3 \/ Len(previous_3) < 3 THEN Zero
        ELSE RMax(RNeg(max_adj), RMin(max_adj, trend))

\* the minutes of the records whose MIN is truthy (0 stands for None, 0, '')
RECURSIVE MinuteVals(_)
MinuteVals(gs) ==
    IF gs = <<>> THEN <<>>
    ELSE IF Head(gs).min # 0
         THEN <<Head(gs).min>> \o MinuteVals(Tail(gs))
         ELSE MinuteVals(Tail(gs))

\* _minutes_adjustment with the bounds 25 and 35 on the wrong side
minutes_adjustment_bounds_excluded(gs, base_pred) ==
    LET recent_minutes == MinuteVals(Take(gs, 5))
        avg_minutes == R(ISum(recent_minutes), Len(recent_minutes))
    IN  IF Len(recent_minutes) < 3 THEN Zero
        ELSE IF RLe(avg_minutes, RInt(25)) THEN RMul(base_pred, R(-5, 100))
        ELSE IF RLe(RInt(35), avg_minutes) THEN RMul(base_pred, R(3, 100))
        ELSE Zero

minutes_adjustment(gs, base_pred) ==
    LET recent_minutes == MinuteVals(Take(gs, 5))
        avg_minutes == R(ISum(recent_minutes), Len(recent_minutes))
    IN  IF Len(recent_minutes) < 3 THEN Zero
        ELSE IF RLt(avg_minutes, RInt(25)) THEN RMul(base_pred, R(-5, 100))
        ELSE IF RLt(RInt(35), avg_minutes) THEN RMul(base_pred, R(3, 100))
        ELSE Zero

\* _adjust_confidence returning the confidence without the final clamp
adjust_confidence_unclamped(base_confidence, sample_size, adjustments) ==
    LET c1 == IF sample_size >= 10 THEN SurdPlus(base_confidence, 5)
              ELSE IF sample_size < 5 THEN SurdPlus(base_confidence, -10)
              ELSE base_confidence
        total_adj == RSum([i \in 1..Len(adjustments) |-> RAbs(adjustments[i][2])])
    IN  IF RLt(RInt(3), total_adj) THEN SurdPlus(c1, -5) ELSE c1

\* adjustments is the dict in insertion order: a sequence of <<name, value>>
adjust_confidence(base_confidence, sample_size, adjustments) ==
    LET c1 == IF sample_size >= 10 THEN SurdPlus(base_confidence, 5)
              ELSE IF sample_size < 5 THEN SurdPlus(base_confidence, -10)
              ELSE base_confidence
        total_adj == RSum([i \in 1..Len(adjustments) |-> RAbs(adjustments[i][2])])
        c2 == IF RLt(RInt(3), total_adj) THEN SurdPlus(c1, -5) ELSE c1
    IN  SurdMax(50, SurdMin(95, c2))

NoneResult == [kind |-> "none"]

Truthy(str) == str \notin {None, ""}

predict_with_context(gs, stat, opponent, is_home, days_rest) ==
    LET b == calculate_base(gs, stat)
        base_pred == b.base
        use_opp == Truthy(opponent) /\ stat = "PTS"
        opp_adj == IF use_opp THEN opponent_adjustment(opponent, base_pred) ELSE Zero
        home_adj == home_away_adjustment(gs, stat, is_home)
        rest_adj == rest_adjustment(days_rest, stat)
        form_adj == form_adjustment(gs, stat)
        minutes_adj == minutes_adjustment(gs, base_pred)
        final_pred == RSum(<<base_pred, opp_adj, home_adj, rest_adj, form_adj,
                             minutes_adj>>)
        adjustments ==
            (IF use_opp THEN << <<"opponent", Round2(opp_adj)>> >> ELSE <<>>)
            \o << <<"home_away", Round2(home_adj)>>,
                  <<"rest", Round2(rest_adj)>>,
                  <<"form", Round2(form_adj)>>,
                  <<"minutes", Round2(minutes_adj)>> >>
        adjusted_confidence == adjust_confidence(b.confidence, Len(gs), adjustments)
    IN  IF gs = <<>> \/ Len(gs) < 3 THEN NoneResult
        ELSE IF ~b.ok THEN NoneResult
        ELSE [kind |-> "value",
              pred |-> Round1(final_pred),
              confidence |-> SurdRound1(adjusted_confidence),
              breakdown |-> [base_prediction |-> Round1(base_pred),
                             adjustments |-> adjustments,
                             total_adjustment |-> Round2(RSub(final_pred, base_pred))]]

----------------------------------------------------------------------------
(* Strings that the code searches: sequences of one-character strings *)

UpperLetters ==
    <<"A", "B", "C", "D", "E", "F", "G", "H", "I", "J", "K", "L", "M",
      "N", "O", "P", "Q", "R", "S", "T", "U", "V", "W", "X", "Y", "Z">>

LowerLetters ==
    <<"a", "b", "c", "d", "e", "f", "g", "h", "i", "j", "k", "l", "m",
      "n", "o", "p", "q", "r", "s", "t", "u", "v", "w", "x", "y", "z">>

LowerChar(c) ==
    IF \E i \in 1..26 : UpperLetters[i] = c
    THEN LowerLetters[CHOOSE i \in 1..26 : UpperLetters[i] = c]
    ELSE c

\* str.lower()
lower(str) == [i \in 1..Len(str) |-> LowerChar(str[i])]

\* Python's `needle in hay` on strings
Contains(needle, hay) ==
    \E i \in 0..(Len(hay) - Len(needle)) :
        SubSeq(hay, i + 1, i + Len(needle)) = needle

----------------------------------------------------------------------------
(* InjuryDataCollector *)

Injury(player, status) == [player |-> player, status |-> status]

\* injuries_by_team.get(team, [])
TeamInjuries(injuries, team) ==
    IF team \in DOMAIN injuries THEN injuries[team] ELSE <<>>

\* is_player_out comparing the status without lower-casing it
is_player_out_case_sensitive(injuries, team, player_name) ==
    LET team_injuries == TeamInjuries(injuries, team)
    IN  \E i \in 1..Len(team_injuries) :
            /\ Contains(lower(player_name), lower(team_injuries[i].player))
            /\ \/ Contains(<<"o", "u", "t">>, team_injuries[i].status)
               \/ Contains(<<"d", "o", "u", "b", "t", "f", "u", "l">>,
                           team_injuries[i].status)

is_player_out(injuries, team, player_name) ==
    LET team_injuries == TeamInjuries(injuries, team)
    IN  \E i \in 1..Len(team_injuries) :
            /\ Contains(lower(player_name), lower(team_injuries[i].player))
            /\ \/ Contains(<<"o", "u", "t">>, lower(team_injuries[i].status))
               \/ Contains(<<"d", "o", "u", "b", "t", "f", "u", "l">>,
                           lower(team_injuries[i].status))

IsOutStatus(injury) == Contains(<<"o", "u", "t">>, lower(injury.status))

\* get_team_key_injuries counting the doubtful players as well
get_team_key_injuries_with_doubtful(injuries, team) ==
    SelectSeq(TeamInjuries(injuries, team),
              LAMBDA injury :
                  \/ IsOutStatus(injury)
                  \/ Contains(<<"d", "o", "u", "b", "t", "f", "u", "l">>,
                              lower(injury.status)))

get_team_key_injuries(injuries, team) ==
    SelectSeq(TeamInjuries(injuries, team), IsOutStatus)

calculate_usage_boost(injuries, player_team, opponent_team, player_name) ==
    LET own_injuries == get_team_key_injuries(injuries, player_team)
        opp_injuries == get_team_key_injuries(injuries, opponent_team)
    IN  [own_team_boost |-> IF own_injuries # <<>>
                            THEN RMul(RInt(Len(own_injuries)), R(3, 10))
                            ELSE Zero,
         opponent_boost |-> IF opp_injuries # <<>>
                            THEN RMul(RInt(Len(opp_injuries)), R(2, 10))
                            ELSE Zero]

----------------------------------------------------------------------------
(* SmartPredictorWithInjuries *)

\* the overlay recording the injury term without adding it to the final
\* value
injury_overlay_boost_dropped(ctx, injuries, player_name, player_team, opponent) ==
    LET injury_adj == calculate_usage_boost(
                          injuries, player_team,
                          IF Truthy(opponent) THEN opponent ELSE player_team,
                          player_name)
        injury_boost == RAdd(injury_adj.own_team_boost, injury_adj.opponent_boost)
        boosted == RLt(Zero, injury_boost)
    IN  IF ctx.kind = "none" THEN NoneResult
        ELSE IF is_player_out(injuries, player_team, player_name) THEN NoneResult
        ELSE [kind |-> "value",
              pred |-> Round1(ctx.pred),
              confidence |-> ctx.confidence,
              breakdown |->
                  [base_prediction |-> ctx.breakdown.base_prediction,
                   adjustments |->
                       ctx.breakdown.adjustments
                       \o << <<"injuries",
                               IF boosted THEN Round2(injury_boost) ELSE Zero>> >>,
                   total_adjustment |->
                       IF boosted
                       THEN RAdd(ctx.breakdown.total_adjustment, injury_boost)
                       ELSE ctx.breakdown.total_adjustment]]

\* predict_with_injuries from the base prediction on: ctx is what
\* predict_with_context returned
injury_overlay(ctx, injuries, player_name, player_team, opponent) ==
    LET injury_adj == calculate_usage_boost(
                          injuries, player_team,
                          IF Truthy(opponent) THEN opponent ELSE player_team,
                          player_name)
        injury_boost == RAdd(injury_adj.own_team_boost, injury_adj.opponent_boost)
        boosted == RLt(Zero, injury_boost)
        final_pred == IF boosted THEN RAdd(ctx.pred, injury_boost) ELSE ctx.pred
    IN  IF ctx.kind = "none" THEN NoneResult
        ELSE IF is_player_out(injuries, player_team, player_name) THEN NoneResult
        ELSE [kind |-> "value",
              pred |-> Round1(final_pred),
              confidence |-> ctx.confidence,
              breakdown |->
                  [base_prediction |-> ctx.breakdown.base_prediction,
                   adjustments |->
                       ctx.breakdown.adjustments
                       \o << <<"injuries",
                               IF boosted THEN Round2(injury_boost) ELSE Zero>> >>,
                   total_adjustment |->
                       IF boosted
                       THEN RAdd(ctx.breakdown.total_adjustment, injury_boost)
                       ELSE ctx.breakdown.total_adjustment]]

\* the base prediction is computed once and handed on
predict_with_injuries(injuries, gs, stat, player_name, player_team, opponent, is_home, days_rest) ==
    CHOOSE r \in {injury_overlay(ctx, injuries, player_name, player_team, opponent) :
                     ctx \in {predict_with_context(gs, stat, opponent,
                                                   is_home, days_rest)}} : TRUE

----------------------------------------------------------------------------
(* The inputs of the forecasting specifications *)

BoundedSeq(S, n) == UNION {[1..k -> S] : k \in 0..n}

\* the longest history of the generic input set
MaxGames == 3

\* the rows a team's injury list holds at most
MaxInjuries == 1

\* the largest days_rest tried; the smallest is -1
MaxRest == 3

Vals == {Missing, Bad, Num(10), Num(50)}

GameRecords ==
    {Game(v, "vs.", 38) : v \in Vals} \cup {Game(v, "@", 20) : v \in Vals}

\* the history of the weighted-mean check of the specification
H8 == <<Game(Num(10), "vs.", 30), Game(Num(20), "@", 30), Game(Num(30), "vs.", 30),
        Game(Num(40), "@", 30), Game(Num(50), "vs.", 30)>>

\* the mock history of the demo of phase_c_smart_predictions
MockGames ==
    <<Game(Num(28), "vs.", 35), Game(Num(24), "@", 33), Game(Num(31), "vs.", 37),
      Game(Num(26), "@", 34), Game(Num(22), "vs.", 32)>>

\* six records with a rising trend, one of them without minutes
TrendGames ==
    <<Game(Num(30), "vs.", 36), Game(Num(28), "@", 0), Game(Num(29), "vs.", 38),
      Game(Num(20), "@", 36), Game(Num(22), "vs.", 37), Game(Num(21), "", 36)>>

\* six records, the second of them with a value that is not a number
GapGames ==
    <<Game(Num(10), "vs.", 30), Game(Bad, "@", 30), Game(Num(30), "vs.", 30),
      Game(Num(40), "@", 30), Game(Num(50), "vs.", 30), Game(Num(60), "@", 30)>>

\* four records of which two hold minutes, 20 each
FewMinutesGames ==
    <<Game(Num(10), "vs.", 20), Game(Num(20), "@", 0), Game(Num(30), "vs.", 0),
      Game(Num(20), "@", 20)>>

\* records whose minutes average exactly 25, and exactly 35
Minutes25Games ==
    <<Game(Num(10), "vs.", 20), Game(Num(20), "@", 30), Game(Num(30), "vs.", 25)>>

Minutes35Games ==
    <<Game(Num(10), "vs.", 38), Game(Num(20), "@", 32), Game(Num(30), "vs.", 35)>>

\* ten steady records
SteadyGames == [i \in 1..10 |-> Game(Num(20 + (i % 2)), IF i % 2 = 0 THEN "@" ELSE "vs.", 30)]

Histories ==
    BoundedSeq(GameRecords, MaxGames)
    \cup {H8, MockGames, TrendGames, SteadyGames, GapGames,
          FewMinutesGames, Minutes25Games, Minutes35Games}

Stats == {"PTS", "REB"}

Opponents == {None, "WAS", "OKC"}

RestDays == (-1)..MaxRest

Ray == <<"R", "a", "y">>

Murray == <<"M", "u", "r", "r", "a", "y">>

Cole == <<"C", "o", "l", "e">>

Out == <<"O", "u", "t">>

Doubtful == <<"D", "o", "u", "b", "t", "f", "u", "l">>

Questionable == <<"Q", "u", "e", "s", "t", "i", "o", "n", "a", "b", "l", "e">>

Statuses == {Out, Doubtful, Questionable}

Args(stat, opponent, is_home, days_rest, player_name, player_team) ==
    [stat |-> stat, opponent |-> opponent, is_home |-> is_home,
     days_rest |-> days_rest, player_name |-> player_name,
     player_team |-> player_team]

\* the calls of predict_with_context tried
ContextArgs ==
    {Args(s, o, h, d, Ray, "LAL") :
        s \in Stats, o \in Opponents, h \in BOOLEAN, d \in RestDays}

\* {} : the snapshot of a freshly built SmartPredictorWithInjuries
NoInjuries == <<>>

\* the dict get_injury_report builds: only teams with at least one row
Report(lal, was) ==
    [t \in ({"LAL" : i \in 1..Len(lal)} \cup {"WAS" : i \in 1..Len(was)}) |->
        IF t = "LAL" THEN lal ELSE was]

Reports ==
    {Report(lal, was) :
        lal \in BoundedSeq({Injury(p, st) : p \in {Ray, Murray}, st \in Statuses},
                           MaxInjuries),
        was \in BoundedSeq({Injury(Cole, st) : st \in {Out, Questionable}},
                           MaxInjuries)}

\* the histories and calls of predict_with_injuries tried: is_home and
\* days_rest keep their defaults
InjuryHistories ==
    BoundedSeq({Game(Num(10), "vs.", 38), Game(Num(50), "@", 20)}, MaxGames)
    \cup {H8, MockGames, TrendGames, SteadyGames}

InjuryArgs ==
    {Args(s, o, TRUE, 1, p, "LAL") :
        s \in Stats, o \in Opponents, p \in {Ray, Murray}}

----------------------------------------------------------------------------
(* The parts of the state a specification leaves alone *)

NoResult == [kind |-> "idle"]

ForecastIdle ==
    /\ games = <<>>
    /\ args = Args("PTS", None, TRUE, 1, Ray, "LAL")
    /\ espn = NoInjuries
    /\ injuries_by_team = NoInjuries
    /\ result = NoResult

NoRequest == [api |-> "none"]

CacheIdle ==
    /\ request = NoRequest
    /\ store = [table |-> TRUE, rows |-> <<>>]
    /\ now = 0
    /\ lastSet = <<>>
    /\ lookup = [api |-> "none", key |-> "", ttl |-> 0, at |-> 0,
                 result |-> [t |-> "none", items |-> <<>>]]
    /\ clock = 0
    /\ last_request_time = 0
    /\ sent = <<>>

\* the parameters of GET /value-bets/today
Query(min_edge, show_all, force_refresh) ==
    [min_edge |-> min_edge, show_all |-> show_all, force_refresh |-> force_refresh]

NoResponse == [kind |-> "idle"]

ValueIdle ==
    /\ props = <<>>
    /\ query = Query(RInt(2), FALSE, FALSE)
    /\ response = NoResponse

forecastVars == <<games, args, espn, injuries_by_team, result>>

cacheVars == <<store, now, lastSet, lookup, request>>

rateVars == <<clock, last_request_time, sent>>

valueVars == <<props, query, response>>

----------------------------------------------------------------------------
(* Forecasting: the calls of SmartPredictor and SmartPredictorWithInjuries *)

PredictWithContext ==
    /\ result' = predict_with_context(games, args.stat, args.opponent,
                                      args.is_home, args.days_rest)
    /\ op' = "predict_with_context"
    /\ UNCHANGED <<rateVars, games, args, espn, injuries_by_team, cacheVars, valueVars>>

PredictWithInjuries ==
    /\ result' = predict_with_injuries(injuries_by_team, games, args.stat,
                                       args.player_name, args.player_team,
                                       args.opponent, args.is_home, args.days_rest)
    /\ op' = "predict_with_injuries"
    /\ UNCHANGED <<rateVars, games, args, espn, injuries_by_team, cacheVars, valueVars>>

\* get_injury_report returns the scraped report, or {} when the request or
\* the parsing raises
get_injury_report(page, fetched) == IF fetched THEN page ELSE NoInjuries

\* a refresh that updates the snapshot with the report, as dict.update does
refresh_injury_data_updating(snapshot, report) ==
    [t \in DOMAIN snapshot \cup DOMAIN report |->
        IF t \in DOMAIN report THEN report[t] ELSE snapshot[t]]

\* refresh_injury_data assigns the report to the snapshot
refresh_injury_data(snapshot, report) == report

RefreshInjuryData ==
    /\ \E fetched \in BOOLEAN :
           injuries_by_team' = refresh_injury_data(injuries_by_team,
                                                   get_injury_report(espn, fetched))
    /\ op' = "refresh_injury_data"
    /\ UNCHANGED <<rateVars, games, args, espn, result, cacheVars, valueVars>>

InitContext ==
    /\ games \in Histories
    /\ args \in ContextArgs
    /\ espn = NoInjuries
    /\ injuries_by_team = NoInjuries
    /\ result = NoResult
    /\ CacheIdle
    /\ ValueIdle
    /\ op = "init"

NextContext == PredictWithContext

SpecContext == InitContext /\ [][NextContext]_vars

InitInjuries ==
    /\ games \in InjuryHistories
    /\ args \in InjuryArgs
    /\ espn \in Reports
    /\ injuries_by_team = NoInjuries
    /\ result = NoResult
    /\ CacheIdle
    /\ ValueIdle
    /\ op = "init"

NextInjuries ==
    \/ RefreshInjuryData
    \/ PredictWithInjuries
    \/ PredictWithContext

SpecInjuries == InitInjuries /\ [][NextInjuries]_vars

\* the injury page changes between two refreshes
EspnUpdates ==
    /\ espn' \in Reports \ {espn}
    /\ op' = "espn_updates"
    /\ UNCHANGED <<rateVars, games, args, injuries_by_team, result, cacheVars, valueVars>>

InitSnapshot ==
    /\ games = MockGames
    /\ args \in {a \in InjuryArgs : a.stat = "PTS"}
    /\ espn \in Reports
    /\ injuries_by_team = NoInjuries
    /\ result = NoResult
    /\ CacheIdle
    /\ ValueIdle
    /\ op = "init"

NextSnapshot ==
    \/ RefreshInjuryData
    \/ PredictWithInjuries
    \/ EspnUpdates

SpecSnapshot == InitSnapshot /\ [][NextSnapshot]_vars

----------------------------------------------------------------------------
(* Claims about the forecasters *)

Predicted == op \in {"predict_with_context", "predict_with_injuries"}

Numeric == Predicted /\ result.kind = "value"

\* the records among the five most recent that hold a number for the category
NumericCount(gs) ==
    Cardinality({i \in 1..Min2(5, Len(gs)) : gs[i].val.k = "num"})

\* C1: a history in which fewer than 3 of the 5 most recent records hold a
\* valid number for the category (a record without the category, or with a
\* non-numeric value, is not usable) makes predict_with_context return
\* (None, None, None), never a numeric forecast.
C1_InsufficientHistoryGivesNoForecast ==
    (op = "predict_with_context" /\ NumericCount(games) < 3)
        => result = NoneResult

\* the injury snapshot lists the subject, on the subject's team, as Out
SubjectListedOut ==
    LET rows == TeamInjuries(injuries_by_team, args.player_team)
    IN  \E i \in 1..Len(rows) :
            rows[i].player = args.player_name /\ rows[i].status = Out

C3_ConfidenceInRange ==
    Numeric => /\ RLe(RInt(50), result.confidence)
               /\ RLe(result.confidence, RInt(95))

\* C3 witness: an overlay result on ten steady records, whose confidence
\* before clamping is above 100, comes back as 95; and one whose variance is
\* large comes back as 50.
C3_Witness ==
    /\ op = "predict_with_injuries"
    /\ result.kind = "value"
    /\ \/ Len(games) >= 10 /\ result.confidence = RInt(95)
       \/ Len(games) < 5 /\ result.confidence = RInt(50)

\* C8 as stated: for the history [10,20,30,40,50] the base is 125/4.0 = 31.25.
C8_BaseIs3125 ==
    (op = "predict_with_context" /\ games = H8)
        => calculate_base(games, args.stat).base = R(3125, 100)

\* C8: for the history [10,20,30,40,50], most recent first, with weights
\* [1.0,0.9,0.8,0.7,0.6] the base forecast is 110/4.0 = 27.5, and that is the
\* base_prediction the call reports.
C8_BaseIs275 ==
    (op = "predict_with_context" /\ games = H8)
        => /\ calculate_base(games, args.stat).base = R(110, 4)
           /\ result.kind = "value"
           /\ result.breakdown.base_prediction = R(275, 10)

C8_Witness == op = "predict_with_context" /\ games = H8 /\ result.kind = "value"

\* the value recorded under `name` in the adjustments of a numeric result
AdjustmentNamed(res, name) ==
    LET adj == res.breakdown.adjustments
    IN  adj[CHOOSE i \in 1..Len(adj) : adj[i][1] = name][2]

\* the rest term as the specification tabulates it
RestTable(days_rest, stat) ==
    CASE days_rest = 0 -> IF stat = "PTS" THEN R(-20, 10) ELSE R(-5, 10)
      [] days_rest = 1 -> IF stat = "PTS" THEN R(-15, 10) ELSE R(-3, 10)
      [] days_rest >= 3 -> IF stat = "PTS" THEN R(5, 10) ELSE R(1, 10)
      [] OTHER -> Zero

AdjustmentSum(res) ==
    RSum([i \in 1..Len(res.breakdown.adjustments) |->
              res.breakdown.adjustments[i][2]])

\* C10 as stated: the returned final value equals the returned base_prediction
\* plus the sum of the recorded adjustment terms, and total_adjustment equals
\* that sum.
C10_FinalIsBasePlusTerms ==
    Numeric => /\ result.pred = RAdd(result.breakdown.base_prediction,
                                      AdjustmentSum(result))
               /\ result.breakdown.total_adjustment = AdjustmentSum(result)

\* C10: each returned number is rounded on its own (final value and
\* base_prediction to 1 decimal, each term and total_adjustment to 2), so the
\* returned final value equals base_prediction plus the sum of the recorded
\* terms up to 0.15, and total_adjustment equals that sum up to 0.05.
C10_FinalIsBasePlusTermsRounded ==
    Numeric =>
        /\ RLe(RAbs(RSub(result.pred,
                         RAdd(result.breakdown.base_prediction,
                              AdjustmentSum(result)))),
               R(15, 100))
        /\ RLe(RAbs(RSub(result.breakdown.total_adjustment,
                         AdjustmentSum(result))),
               R(5, 100))

\* C10 witness: an overlay result with a non-zero injury term whose final
\* value differs from base_prediction plus the recorded terms.
C10_Witness ==
    /\ op = "predict_with_injuries"
    /\ result.kind = "value"
    /\ AdjustmentNamed(result, "injuries") # Zero
    /\ result.pred # RAdd(result.breakdown.base_prediction, AdjustmentSum(result))

----------------------------------------------------------------------------
(* JSON payloads.  A payload is a list of digits or an object of digits;    *)
(* json.dumps writes it as text, json.loads reads the text back.            *)

List(items) == [t |-> "list", items |-> items]

Dict(items) == [t |-> "dict", items |-> items]

\* Python's None, as a lookup returns it
PyNone == [t |-> "none", items |-> <<>>]

DigitChars == <<"0", "1", "2", "3", "4", "5", "6", "7", "8", "9">>

KeyChars == <<"a", "b", "c">>

IsDigitChar(c) == \E i \in 1..10 : DigitChars[i] = c

DigitOf(c) == (CHOOSE i \in 1..10 : DigitChars[i] = c) - 1

\* the items of a payload as text, separated by ", "; i is the position of
\* the first of them
RECURSIVE ItemsText(_, _, _)
ItemsText(items, t, i) ==
    IF items = <<>> THEN <<>>
    ELSE (IF i > 1 THEN <<",", " ">> ELSE <<>>)
         \o (IF t = "dict" THEN <<"\"", KeyChars[i], "\"", ":", " ">> ELSE <<>>)
         \o <<DigitChars[Head(items) + 1]>>
         \o ItemsText(Tail(items), t, i + 1)

json_dumps(v) ==
    IF v.t = "list" THEN <<"[">> \o ItemsText(v.items, "list", 1) \o <<"]">>
    ELSE <<"{">> \o ItemsText(v.items, "dict", 1) \o <<"}">>

\* the digits of a text, in order
RECURSIVE DigitsOf(_)
DigitsOf(text) ==
    IF text = <<>> THEN <<>>
    ELSE IF IsDigitChar(Head(text))
         THEN <<DigitOf(Head(text))>> \o DigitsOf(Tail(text))
         ELSE DigitsOf(Tail(text))

json_loads(text) ==
    [t |-> IF Head(text) = "[" THEN "list" ELSE "dict", items |-> DigitsOf(text)]

----------------------------------------------------------------------------
(* The response cache: table api_cache of nba_cache.db, shared by            *)
(* NBAStatsAPI and OddsAPI.  store.table says whether the table exists,      *)
(* store.rows maps each cache_key (the PRIMARY KEY) to its data and          *)
(* timestamp.  Time runs in ticks of half an hour.                           *)

\* the last tick of the clock
MaxTime == 5

TickSeconds == 30 * 60

\* cache keys: NBAStatsAPI keys an entry by endpoint and parameters, OddsAPI
\* keeps the odds listing under "nba_odds_current"
KeysOf(api) == IF api = "nba" THEN {"playergamelog"} ELSE {"nba_odds_current"}

Payloads == {List(<<>>), Dict(<<>>), List(<<1>>), Dict(<<2>>)}

\* the max_age_hours tried: that of the scoreboard and _make_request's default
NbaMaxAgeHours == {1, 2}

\* the max_age_minutes of both odds lookups
OddsMaxAgeMinutes == {30}

EmptyStore == [table |-> FALSE, rows |-> <<>>]

\* _get_cached with an entry still served at the age of exactly max_age_hours
nba_get_cached_inclusive(st, cache_key, max_age_hours, t) ==
    IF ~st.table THEN PyNone
    ELSE IF cache_key \notin DOMAIN st.rows THEN PyNone
    ELSE IF (t - st.rows[cache_key].timestamp) * TickSeconds <= max_age_hours * 3600
         THEN json_loads(st.rows[cache_key].data)
         ELSE PyNone

\* NBAStatsAPI._get_cached: the value returned
nba_get_cached(st, cache_key, max_age_hours, t) ==
    IF ~st.table THEN PyNone
    ELSE IF cache_key \notin DOMAIN st.rows THEN PyNone
    ELSE IF (t - st.rows[cache_key].timestamp) * TickSeconds < max_age_hours * 3600
         THEN json_loads(st.rows[cache_key].data)
         ELSE PyNone

\* a lookup that rebuilds the table from scratch
nba_get_cached_store_rebuilt(st) == [table |-> TRUE, rows |-> <<>>]

\* NBAStatsAPI._get_cached: sqlite3.OperationalError (no such table) makes it
\* run _init_cache_db
nba_get_cached_store(st) == IF ~st.table THEN [st EXCEPT !.table = TRUE] ELSE st

\* OddsAPI._get_cached: the value returned; the store is left as it is
odds_get_cached(st, cache_key, max_age_minutes, t) ==
    IF ~st.table THEN PyNone
    ELSE IF cache_key \notin DOMAIN st.rows THEN PyNone
    ELSE IF (t - st.rows[cache_key].timestamp) * TickSeconds < max_age_minutes * 60
         THEN json_loads(st.rows[cache_key].data)
         ELSE PyNone

\* INSERT OR REPLACE INTO api_cache: one row per cache_key
\* a set that patches the payload of an existing row and keeps its timestamp
set_cache_patched(st, cache_key, data, t) ==
    [st EXCEPT !.rows =
        [k \in DOMAIN st.rows \cup {cache_key} |->
            IF k = cache_key
            THEN [data |-> json_dumps(data),
                  timestamp |-> IF k \in DOMAIN st.rows
                                THEN st.rows[k].timestamp ELSE t]
            ELSE st.rows[k]]]

set_cache(st, cache_key, data, t) ==
    [st EXCEPT !.rows =
        [k \in DOMAIN st.rows \cup {cache_key} |->
            IF k = cache_key
            THEN [data |-> json_dumps(data), timestamp |-> t]
            ELSE st.rows[k]]]

\* a removal that leaves the file where it is
remove_cache_db_kept(st) == st

\* os.remove('nba_cache.db'): the next connect opens an empty database
remove_cache_db(st) == EmptyStore

Lookup(api, key, ttl, res) ==
    [api |-> api, key |-> key, ttl |-> ttl, at |-> now, result |-> res]

NbaGetCached ==
    /\ \E key \in KeysOf("nba"), hours \in NbaMaxAgeHours :
           lookup' = Lookup("nba", key, hours * 3600,
                            nba_get_cached(store, key, hours, now))
    /\ store' = nba_get_cached_store(store)
    /\ op' = "get_cached"
    /\ UNCHANGED <<rateVars, now, lastSet, request, forecastVars, valueVars>>

OddsGetCached ==
    /\ \E key \in KeysOf("odds"), minutes \in OddsMaxAgeMinutes :
           lookup' = Lookup("odds", key, minutes * 60,
                            odds_get_cached(store, key, minutes, now))
    /\ op' = "get_cached"
    /\ UNCHANGED <<rateVars, store, now, lastSet, request, forecastVars, valueVars>>

\* the history kept of a set, and of a flush
Remember(key, data) ==
    [k \in DOMAIN lastSet \cup {key} |->
        IF k = key THEN [data |-> data, time |-> now, live |-> TRUE]
        ELSE lastSet[k]]

Forget == [k \in DOMAIN lastSet |-> [data |-> PyNone, time |-> 0, live |-> FALSE]]

\* _set_cache of either class; without the table the INSERT raises
\* sqlite3.OperationalError and nothing is stored
SetCache(api) ==
    \E key \in KeysOf(api), data \in Payloads :
        IF store.table
        THEN /\ store' = set_cache(store, key, data, now)
             /\ lastSet' = Remember(key, data)
             /\ op' = "set_cache"
             /\ UNCHANGED <<rateVars, now, lookup, request, forecastVars, valueVars>>
        ELSE /\ op' = "set_cache_raised"
             /\ UNCHANGED <<rateVars, store, now, lastSet, lookup, request, forecastVars, valueVars>>

NbaSetCache == SetCache("nba")

OddsSetCache == SetCache("odds")

\* find_value_bets, force_refresh=True: the cache file is deleted
ForceRefresh ==
    /\ store' = remove_cache_db(store)
    /\ lastSet' = Forget
    /\ op' = "force_refresh"
    /\ UNCHANGED <<rateVars, now, lookup, request, forecastVars, valueVars>>

Tick ==
    /\ now < MaxTime
    /\ now' = now + 1
    /\ op' = "tick"
    /\ UNCHANGED <<rateVars, store, lastSet, lookup, request, forecastVars, valueVars>>

InitCache ==
    /\ ForecastIdle
    /\ CacheIdle
    /\ ValueIdle
    /\ op = "init"

NextCache ==
    \/ NbaGetCached
    \/ OddsGetCached
    \/ NbaSetCache
    \/ OddsSetCache
    \/ ForceRefresh
    \/ Tick

SpecCache == InitCache /\ [][NextCache]_vars

----------------------------------------------------------------------------
(* Claims about the response cache.                                          *)

\* the entry last set under the key of the lookup is still there
LastSetLive == lookup.key \in DOMAIN lastSet /\ lastSet[lookup.key].live

\* seconds between the last set under the key of the lookup and the lookup
LookupAge == (lookup.at - lastSet[lookup.key].time) * TickSeconds

\* C4: a lookup of key k with freshness window ttl at time now returns the
\* payload of the most recent set for k, unchanged, exactly when such a set
\* exists and now minus its timestamp is less than ttl; otherwise it is a
\* miss.
C4_LookupReturnsLastSetWithinTtl ==
    op = "get_cached" =>
        lookup.result = IF LastSetLive /\ LookupAge < lookup.ttl
                        THEN lastSet[lookup.key].data
                        ELSE PyNone

\* C4 witness: a game-log entry set an hour and a half ago is returned
\* unchanged under the window of two hours.
C4_Witness ==
    /\ op = "get_cached"
    /\ lookup.api = "nba"
    /\ lookup.ttl = 2 * 3600
    /\ LastSetLive
    /\ LookupAge = 3 * TickSeconds
    /\ lookup.result = Dict(<<2>>)
    /\ lastSet[lookup.key].data = Dict(<<2>>)

\* C4 witness of the miss: an odds entry exactly thirty minutes old is not
\* returned under the window of thirty minutes.
C4_WitnessExpired ==
    /\ op = "get_cached"
    /\ lookup.api = "odds"
    /\ LastSetLive
    /\ LookupAge = lookup.ttl
    /\ lookup.result = PyNone

----------------------------------------------------------------------------
(* The value-matching pass: find_value_bets of phase_b_api.  props is what   *)
(* the bookmaker quotes, player by player in the order of the outcomes;      *)
(* each player carries the reference lines in the order of the keys, and     *)
(* with each line the forecast the predictor returns for that player and     *)
(* category.  get_all_player_props_for_today makes the dictionary the pass   *)
(* walks from it.                                                            *)

\* a number that is None: no line quoted, no forecast returned
NoNumber == <<0, 0>>

IsNone(x) == x[2] = 0

\* Python's "not x" of a number or None
Falsy(x) == IsNone(x) \/ x = Zero

PropLine(stat_type, betting_line, prediction) ==
    [stat_type |-> stat_type, betting_line |-> betting_line,
     prediction |-> prediction]

\* has_data: search_player found the player and the game log has 3 games
PlayerProps(player, has_data, lines) ==
    [player |-> player, has_data |-> has_data, lines |-> lines]

\* the lines of one player as the collector stores them: "if player_name
\* and line and ..." leaves the None of the new entry where the point is 0
stored_lines(lines) ==
    [j \in DOMAIN lines |->
        IF Falsy(lines[j].betting_line)
        THEN PropLine(lines[j].stat_type, NoNumber, lines[j].prediction)
        ELSE lines[j]]

HasLine(lines) == \E j \in DOMAIN lines : ~Falsy(lines[j].betting_line)

\* OddsAPI.get_all_player_props_for_today: an entry is made for a player at
\* the first outcome that has a name and a point
get_all_player_props_for_today(quoted) ==
    LET kept == SelectSeq(quoted, LAMBDA e : HasLine(e.lines))
    IN  [i \in DOMAIN kept |->
            PlayerProps(kept[i].player, kept[i].has_data,
                        stored_lines(kept[i].lines))]

StatCode(stat_type) ==
    CASE stat_type = "points" -> "PTS"
      [] stat_type = "rebounds" -> "REB"
      [] stat_type = "assists" -> "AST"
      [] OTHER -> None

\* the test of a value bet with the threshold excluded
IsValueBetStrict(edge, min_edge) == RLt(min_edge, RAbs(edge))

\* abs(edge) >= min_edge
IsValueBet(edge, min_edge) == RLe(min_edge, RAbs(edge))

\* the recommendation "Bet OVER <line>" or "Bet UNDER <line>"
Recommendation(edge, betting_line) ==
    [bet |-> IF RLt(Zero, edge) THEN "OVER" ELSE "UNDER", line |-> betting_line]

\* the comparison dictionary of one line; the key recommendation is set
\* only for a value bet
Comparison(player, l, min_edge) ==
    LET edge == RSub(l.prediction, l.betting_line)
        base == [player |-> player,
                 stat_type |-> l.stat_type,
                 prediction |-> l.prediction,
                 betting_line |-> l.betting_line,
                 edge |-> Round1(edge)]
    IN  IF IsValueBet(edge, min_edge)
        THEN [k \in DOMAIN base \cup {"recommendation"} |->
                 IF k = "recommendation"
                 THEN Recommendation(edge, l.betting_line)
                 ELSE base[k]]
        ELSE base

IsRecommended(c) == "recommendation" \in DOMAIN c

\* the inner loop: for stat_type, betting_line in props.items()
RECURSIVE compare_lines(_, _, _)
compare_lines(player, lines, min_edge) ==
    IF lines = <<>> THEN <<>>
    ELSE LET l == Head(lines)
             rest == compare_lines(player, Tail(lines), min_edge)
         IN  IF Falsy(l.betting_line) THEN rest
             ELSE IF StatCode(l.stat_type) = None THEN rest
             ELSE IF IsNone(l.prediction) THEN rest
             ELSE <<Comparison(player, l, min_edge)>> \o rest

\* the comparisons of the players at positions lo..hi, in their order; the
\* range is halved to keep the nesting shallow
RECURSIVE compare_range(_, _, _, _)
compare_range(ps, min_edge, lo, hi) ==
    IF lo > hi THEN <<>>
    ELSE IF lo = hi
         THEN (IF ps[lo].has_data
               THEN compare_lines(ps[lo].player, ps[lo].lines, min_edge)
               ELSE <<>>)
    ELSE compare_range(ps, min_edge, lo, (lo + hi) \div 2)
         \o compare_range(ps, min_edge, (lo + hi) \div 2 + 1, hi)

\* the outer loop: for player_name, props in all_props.items()
compare_players(ps, min_edge) == compare_range(ps, min_edge, 1, Len(ps))

AbsEdge(c) == RAbs(c.edge)

\* c put into a list sorted by descending abs(edge), before its equals
insert_before_equals(sorted, c) ==
    LET k == Cardinality({i \in DOMAIN sorted : RLt(AbsEdge(c), AbsEdge(sorted[i]))})
    IN  SubSeq(sorted, 1, k) \o <<c>> \o SubSeq(sorted, k + 1, Len(sorted))

\* c put into a list sorted by descending abs(edge), after its equals: the
\* elements that are not smaller than c are the first k
insert_after_equals(sorted, c) ==
    LET k == Cardinality({i \in DOMAIN sorted : RLe(AbsEdge(c), AbsEdge(sorted[i]))})
    IN  SubSeq(sorted, 1, k) \o <<c>> \o SubSeq(sorted, k + 1, Len(sorted))

\* the elements of list at positions lo..hi put into sorted one by one, in
\* their order; the range is halved to keep the nesting shallow
RECURSIVE sort_from(_, _, _, _)
sort_from(sorted, list, lo, hi) ==
    IF lo > hi THEN sorted
    ELSE IF lo = hi THEN insert_after_equals(sorted, list[lo])
    ELSE CHOOSE r \in {sort_from(half, list, (lo + hi) \div 2 + 1, hi) :
                           half \in {sort_from(sorted, list, lo, (lo + hi) \div 2)}} : TRUE

\* list.sort(key=lambda x: abs(x['edge']), reverse=True): a stable sort
sort_by_abs_edge(list) == sort_from(<<>>, list, 1, Len(list))

\* all_comparisons[:50]
MaxShown == 50

\* the whole list given out
shown_untruncated(all_comparisons) == all_comparisons

\* response['all_comparisons'] = all_comparisons[:50]
shown(all_comparisons) == Take(all_comparisons, MaxShown)

\* the body of the response: the two sorted lists, the second one and the
\* counters only with show_all
value_bets_response(ps, q) ==
    LET all_comparisons == compare_players(ps, q.min_edge)
        value_bets == SelectSeq(all_comparisons, IsRecommended)
        body == [kind |-> "ok",
                 total_value_bets |-> Len(value_bets),
                 min_edge |-> q.min_edge,
                 value_bets |-> sort_by_abs_edge(value_bets)]
        stats == [players_processed |-> Len(ps),
                  players_with_data |-> Len(SelectSeq(ps, LAMBDA e : e.has_data)),
                  total_comparisons |-> Len(all_comparisons)]
    IN  IF q.show_all
        THEN [k \in DOMAIN body \cup {"all_comparisons", "stats"} |->
                 IF k = "all_comparisons"
                 THEN shown(sort_by_abs_edge(all_comparisons))
                 ELSE IF k = "stats" THEN stats
                 ELSE body[k]]
        ELSE body

\* {"message": "No props available today", "value_bets": []}
NoPropsResponse == [kind |-> "no_props", value_bets |-> <<>>]

\* HTTPException(status_code=500)
ErrorResponse == [kind |-> "error", status_code |-> 500]

\* find_value_bets.  With force_refresh the cache file is deleted first;
\* OddsAPI.get_nba_odds then misses, and either the request fails and no
\* props are returned, or its _set_cache raises on the missing table.
\* Without it the props are those the collector returns.
FindValueBets ==
    /\ IF query.force_refresh
       THEN /\ store' = remove_cache_db(store)
            /\ lastSet' = Forget
            /\ \E fetched \in BOOLEAN :
                   response' = IF fetched THEN ErrorResponse ELSE NoPropsResponse
       ELSE /\ \E all_props \in {get_all_player_props_for_today(props)} :
                   response' = IF all_props = <<>> THEN NoPropsResponse
                               ELSE value_bets_response(all_props, query)
            /\ UNCHANGED <<rateVars, store, lastSet>>
    /\ op' = "find_value_bets"
    /\ UNCHANGED <<rateVars, props, query, now, lookup, request, forecastVars>>

\* find_value of phase_a_api
find_value(prediction, betting_line, threshold) ==
    LET difference == RSub(prediction, betting_line)
    IN  IF RLe(threshold, RAbs(difference))
        THEN [has_value |-> TRUE,
              recommendation |->
                  [bet |-> IF RLt(Zero, difference) THEN "OVER" ELSE "UNDER",
                   line |-> betting_line],
              edge |-> Round1(difference)]
        ELSE [has_value |-> FALSE, edge |-> Round1(difference)]

\* ValueFinder.compare_player_prop of phase_a_core
compare_player_prop(prediction, betting_line, threshold) ==
    LET difference == RSub(prediction, betting_line)
    IN  IF RLe(threshold, RAbs(difference))
        THEN [has_value |-> TRUE,
              edge_type |-> IF RLt(Zero, difference) THEN "OVER" ELSE "UNDER",
              prediction |-> prediction,
              betting_line |-> betting_line,
              difference |-> Round1(difference)]
        ELSE [has_value |-> FALSE,
              prediction |-> prediction,
              betting_line |-> betting_line,
              difference |-> Round1(difference)]

\* the forecasts and lines of props that are both numbers
Pairs ==
    {<<props[i].lines[j].prediction, props[i].lines[j].betting_line>> :
        <<i, j>> \in {ij \in (DOMAIN props) \X (1..2) :
                         /\ ij[2] \in DOMAIN props[ij[1]].lines
                         /\ ~IsNone(props[ij[1]].lines[ij[2]].prediction)
                         /\ ~IsNone(props[ij[1]].lines[ij[2]].betting_line)}}

\* the single-prop comparison of phase_a_api, on one forecast and line
FindValue ==
    /\ \E pair \in Pairs :
           response' = [kind |-> "find_value",
                        prediction |-> pair[1],
                        betting_line |-> pair[2],
                        value |-> find_value(pair[1], pair[2], query.min_edge)]
    /\ op' = "find_value"
    /\ UNCHANGED <<rateVars, props, query, cacheVars, forecastVars>>

\* the single-prop comparison of phase_a_core, on one forecast and line
ComparePlayerProp ==
    /\ \E pair \in Pairs :
           response' = [kind |-> "compare_player_prop",
                        value |-> compare_player_prop(pair[1], pair[2],
                                                      query.min_edge)]
    /\ op' = "compare_player_prop"
    /\ UNCHANGED <<rateVars, props, query, cacheVars, forecastVars>>

\* the players a props dictionary holds at most
MaxPlayers == 2

PlayerNames == <<"Cole", "Murray", "Ray">>

Forecast == R(275, 10)

\* what a player's points entry can be: no line, a line of 0, no forecast,
\* and lines 2.0, 2.04, 0.04 and 0 below the forecast and 2.0 above it
PointsLines ==
    {PropLine("points", NoNumber, Forecast),
     PropLine("points", Zero, Forecast),
     PropLine("points", R(255, 10), NoNumber),
     PropLine("points", R(255, 10), Forecast),
     PropLine("points", R(2546, 100), Forecast),
     PropLine("points", R(2746, 100), Forecast),
     PropLine("points", R(275, 10), Forecast),
     PropLine("points", R(295, 10), Forecast)}

ReboundsLines ==
    {PropLine("rebounds", NoNumber, Forecast),
     PropLine("rebounds", R(255, 10), Forecast),
     PropLine("rebounds", R(295, 10), Forecast)}

PlayerEntries(name) ==
    {PlayerProps(name, TRUE, <<p, r>>) : p \in PointsLines, r \in ReboundsLines}
    \cup {PlayerProps(name, FALSE, <<PropLine("points", R(255, 10), Forecast),
                                     PropLine("rebounds", NoNumber, Forecast)>>)}

\* the props dictionaries: one entry per name, the names in order
PropsOf(n) ==
    {ps \in [1..n -> UNION {PlayerEntries(PlayerNames[i]) : i \in 1..n}] :
        \A i \in 1..n : ps[i].player = PlayerNames[i]}

\* a full slate: 26 players, each with a points line 2.0 and a rebounds
\* line 0.04 below the forecast, which makes 52 comparisons
FullSlate ==
    [i \in DOMAIN LowerLetters |->
        PlayerProps(LowerLetters[i], TRUE,
                    <<PropLine("points", R(255, 10), Forecast),
                      PropLine("rebounds", R(2746, 100), Forecast)>>)]

AllProps == UNION {PropsOf(n) : n \in 0..MaxPlayers} \cup {FullSlate}

Queries ==
    {Query(RInt(2), FALSE, FALSE),
     Query(RInt(2), TRUE, FALSE),
     Query(R(202, 100), TRUE, FALSE),
     Query(Zero, TRUE, FALSE),
     Query(RInt(2), FALSE, TRUE)}

InitValue ==
    /\ ForecastIdle
    /\ CacheIdle
    /\ props \in AllProps
    /\ query \in Queries
    /\ response = NoResponse
    /\ op = "init"

NextValue ==
    \/ FindValueBets
    \/ FindValue
    \/ ComparePlayerProp

SpecValue == InitValue /\ [][NextValue]_vars

----------------------------------------------------------------------------
(* Claims about the value-matching pass.                                     *)

\* forecast minus line of a comparison, not rounded
Deviation(c) == RSub(c.prediction, c.betting_line)

AtLeastThreshold(prediction, betting_line, threshold) ==
    RLe(threshold, RAbs(RSub(prediction, betting_line)))

Direction(prediction, betting_line) ==
    IF RLt(betting_line, prediction) THEN "OVER" ELSE "UNDER"

\* the recorded deviation is not of the sign opposite to the direction
SignAgrees(bet, recorded) ==
    IF bet = "OVER" THEN RLe(Zero, recorded) ELSE RLe(recorded, Zero)

Matched == op = "find_value_bets" /\ response.kind = "ok"

IsIn(c, list) == \E i \in DOMAIN list : list[i] = c

\* the lines of props that the pass compares: the player has data, a line
\* that is not 0 is quoted and a forecast is returned
Compared ==
    {ij \in (DOMAIN props) \X (1..2) :
        /\ props[ij[1]].has_data
        /\ ~Falsy(props[ij[1]].lines[ij[2]].betting_line)
        /\ ~IsNone(props[ij[1]].lines[ij[2]].prediction)}

EnumerationIndex(c) ==
    LET i == CHOOSE i \in DOMAIN props : props[i].player = c.player
        j == CHOOSE j \in DOMAIN props[i].lines :
                 props[i].lines[j].stat_type = c.stat_type
    IN  2 * i + j

\* the returned lists
Outputs ==
    {response.value_bets}
    \cup (IF query.show_all THEN {response.all_comparisons} ELSE {})

\* C7 as stated: both lists are in descending order of |forecast - line|,
\* and comparisons of equal |forecast - line| keep their enumeration order.
C7_SortedByDeviation ==
    Matched =>
        \A list \in Outputs : \A i, j \in DOMAIN list :
            i < j =>
                /\ RLe(RAbs(Deviation(list[j])), RAbs(Deviation(list[i])))
                /\ RAbs(Deviation(list[j])) = RAbs(Deviation(list[i]))
                       => EnumerationIndex(list[i]) < EnumerationIndex(list[j])

\* C7, amended: both lists are in descending order of the absolute value of
\* the recorded edge, which is forecast - line rounded to one decimal, and
\* comparisons of equal recorded |edge| keep their enumeration order.
C7_SortedByRecordedEdge ==
    Matched =>
        \A list \in Outputs : \A i, j \in DOMAIN list :
            i < j =>
                /\ RLe(AbsEdge(list[j]), AbsEdge(list[i]))
                /\ AbsEdge(list[j]) = AbsEdge(list[i])
                       => EnumerationIndex(list[i]) < EnumerationIndex(list[j])

\* C7 witness: a returned list in which a comparison enumerated later
\* stands before one of smaller recorded |edge|, and two comparisons of
\* equal recorded |edge| but different deviations stand in enumeration
\* order.
C7_Witness ==
    /\ Matched
    /\ query.show_all
    /\ \E i, j, k \in DOMAIN response.all_comparisons :
           LET list == response.all_comparisons
           IN  /\ i < j /\ j < k
               /\ AbsEdge(list[i]) = AbsEdge(list[j])
               /\ Deviation(list[i]) # Deviation(list[j])
               /\ EnumerationIndex(list[i]) < EnumerationIndex(list[j])
               /\ RLt(AbsEdge(list[k]), AbsEdge(list[j]))
               /\ EnumerationIndex(list[k]) < EnumerationIndex(list[j])

----------------------------------------------------------------------------
(* Further claims about the forecasts.                                       *)

\* the names of the recorded adjustment terms, in order
AdjustmentNames(res) ==
    [i \in 1..Len(res.breakdown.adjustments) |-> res.breakdown.adjustments[i][1]]

\* C11: every numeric result of predict_with_context records the five
\* terms opponent, home_away, rest, form, minutes, in this order, for every
\* category and with or without an opponent.
C11_FiveTermsRecorded ==
    (op = "predict_with_context" /\ result.kind = "value") =>
        AdjustmentNames(result) = <<"opponent", "home_away", "rest", "form", "minutes">>

\* the history alone is enough for a numeric forecast
HistorySufficient ==
    predict_with_context(games, args.stat, args.opponent, args.is_home,
                         args.days_rest).kind = "value"

\* what predict_with_injuries returns for the same call with the history
\* [10], which has fewer than 3 usable values
InsufficientDataOutcome ==
    predict_with_injuries(injuries_by_team, <<Game(Num(10), "vs.", 38)>>,
                          args.stat, args.player_name, args.player_team,
                          args.opponent, args.is_home, args.days_rest)

\* C12: the value predict_with_injuries returns for a subject listed out,
\* whose history is sufficient, is never equal to the value it returns for
\* a history with fewer than 3 usable values.
C12_UnavailableDistinctFromInsufficient ==
    (op = "predict_with_injuries" /\ SubjectListedOut /\ HistorySufficient) =>
        result # InsufficientDataOutcome

----------------------------------------------------------------------------
(* Cached requests: NBAStatsAPI._make_request, OddsAPI.get_nba_odds and      *)
(* OddsAPI.get_player_props.  Each looks its key up, returns a cached        *)
(* payload that is truthy, and otherwise asks upstream; what upstream        *)
(* answers is chosen freely.                                                 *)

\* Python's truth value of a looked-up payload: None, [] and {} are false
PyTruthy(v) == v.t # "none" /\ v.items # <<>>

\* an upstream answer: the request raised RequestException, or the JSON body
Failed == [ok |-> FALSE, data |-> PyNone]

Answer(data) == [ok |-> TRUE, data |-> data]

\* the bodies upstream can send: objects from stats.nba.com and from the
\* event odds, a list of games from the odds listing
BodiesOf(api) ==
    IF api = "odds" THEN {List(<<>>), List(<<1>>)} ELSE {Dict(<<>>), Dict(<<2>>)}

Upstream(api) == {Failed} \cup {Answer(d) : d \in BodiesOf(api)}

\* the key of the props of an event
PropsKeys == {"nba_player_props"}

\* what a request did: the store it left, whether it asked upstream and how
\* that ended, the value returned, and whether _set_cache raised
Outcome(st, fetch, returned, raised) ==
    [store |-> st, fetch |-> fetch, returned |-> returned, raised |-> raised]

\* NBAStatsAPI._make_request
nba_make_request(st, cache_key, cache_hours, t, upstream) ==
    LET cached == nba_get_cached(st, cache_key, cache_hours, t)
        st1 == nba_get_cached_store(st)
    IN  IF PyTruthy(cached) THEN Outcome(st1, "none", cached, FALSE)
        ELSE IF ~upstream.ok THEN Outcome(st1, "failed", PyNone, FALSE)
        ELSE Outcome(set_cache(st1, cache_key, upstream.data, t), "ok",
                     upstream.data, FALSE)

\* an odds request that stores the value it returns for a failed fetch
odds_request_caching_failure(st, cache_key, t, upstream, empty) ==
    LET cached == odds_get_cached(st, cache_key, 30, t)
    IN  IF PyTruthy(cached) THEN Outcome(st, "none", cached, FALSE)
        ELSE IF ~upstream.ok
             THEN Outcome(IF st.table THEN set_cache(st, cache_key, empty, t) ELSE st,
                          "failed", empty, FALSE)
        ELSE IF ~st.table THEN Outcome(st, "ok", PyNone, TRUE)
        ELSE Outcome(set_cache(st, cache_key, upstream.data, t), "ok",
                     upstream.data, FALSE)

\* OddsAPI.get_nba_odds (empty is []) and OddsAPI.get_player_props (empty is
\* {}); without the table _set_cache raises sqlite3.OperationalError, which
\* the handler for RequestException does not catch
odds_request(st, cache_key, t, upstream, empty) ==
    LET cached == odds_get_cached(st, cache_key, 30, t)
    IN  IF PyTruthy(cached) THEN Outcome(st, "none", cached, FALSE)
        ELSE IF ~upstream.ok THEN Outcome(st, "failed", empty, FALSE)
        ELSE IF ~st.table THEN Outcome(st, "ok", PyNone, TRUE)
        ELSE Outcome(set_cache(st, cache_key, upstream.data, t), "ok",
                     upstream.data, FALSE)

Request(api, key, ttl, out) ==
    [api |-> api, key |-> key, ttl |-> ttl, at |-> now, fetch |-> out.fetch,
     returned |-> out.returned, raised |-> out.raised]

\* the history of the sets, after a request
RememberRequest(key, upstream, out) ==
    IF out.fetch = "ok" /\ ~out.raised THEN Remember(key, upstream.data) ELSE lastSet

MakeRequest ==
    /\ \E key \in KeysOf("nba"), hours \in NbaMaxAgeHours, upstream \in Upstream("nba") :
           LET out == nba_make_request(store, key, hours, now, upstream)
           IN  /\ store' = out.store
               /\ request' = Request("nba", key, hours * 3600, out)
               /\ lookup' = Lookup("nba", key, hours * 3600,
                                   nba_get_cached(store, key, hours, now))
               /\ lastSet' = RememberRequest(key, upstream, out)
    /\ op' = "make_request"
    /\ UNCHANGED <<rateVars, now, forecastVars, valueVars>>

\* the seasons get_player_game_log asks for
Seasons == {"2025-26", "2024-25"}

\* _fetch_season_games: the max age of a game log of the season
season_cache_hours(season) == IF season = "2025-26" THEN 6 ELSE 24

\* _fetch_season_games: the game log through _make_request
FetchSeasonGames ==
    /\ \E key \in KeysOf("nba"), season \in Seasons, upstream \in Upstream("nba") :
           LET hours == season_cache_hours(season)
               out == nba_make_request(store, key, hours, now, upstream)
           IN  /\ store' = out.store
               /\ request' = Request("nba", key, hours * 3600, out)
               /\ lookup' = Lookup("nba", key, hours * 3600,
                                   nba_get_cached(store, key, hours, now))
               /\ lastSet' = RememberRequest(key, upstream, out)
    /\ op' = "fetch_season_games"
    /\ UNCHANGED <<rateVars, now, forecastVars, valueVars>>

OddsRequest(keys, upstreams, empty, name) ==
    /\ \E key \in keys, upstream \in upstreams :
           LET out == odds_request(store, key, now, upstream, empty)
           IN  /\ store' = out.store
               /\ request' = Request("odds", key, 30 * 60, out)
               /\ lookup' = Lookup("odds", key, 30 * 60,
                                   odds_get_cached(store, key, 30, now))
               /\ lastSet' = RememberRequest(key, upstream, out)
    /\ op' = name
    /\ UNCHANGED <<rateVars, now, forecastVars, valueVars>>

GetNbaOdds == OddsRequest(KeysOf("odds"), Upstream("odds"), List(<<>>), "get_nba_odds")

GetPlayerProps == OddsRequest(PropsKeys, Upstream("props"), Dict(<<>>), "get_player_props")

InitRequests ==
    /\ ForecastIdle
    /\ CacheIdle
    /\ ValueIdle
    /\ op = "init"

NextRequests ==
    \/ MakeRequest
    \/ FetchSeasonGames
    \/ GetNbaOdds
    \/ GetPlayerProps
    \/ ForceRefresh
    \/ Tick

SpecRequests == InitRequests /\ [][NextRequests]_vars

----------------------------------------------------------------------------
(* The rate limiter of NBAStatsAPI.  The clock of this part runs in tenths   *)
(* of a second: time.time() is StartTime, plus the ticks, plus clock.       *)
(* A freshly built NBAStatsAPI has last_request_time = 0, long before the   *)
(* time of its first request.                                                *)

\* time.time() at Init, in tenths of a second
StartTime == 10

\* the tenths of a second the clock runs past a tick
MaxClock == 9

\* self.min_request_interval = 0.6, in tenths of a second
min_request_interval == 6

\* by how much time.sleep and the statements around it can run late
Lateness == 0..1

Time == StartTime + now * TickSeconds * 10 + clock

\* a limiter that stamps the time and does not sleep
rate_limit_without_sleep(last, current_time, late) == current_time + late

\* _rate_limit: the time it stamps into last_request_time, after the sleep
rate_limit(last, current_time, late) ==
    LET time_since_last == current_time - last
        sleep_time == IF time_since_last < min_request_interval
                      THEN min_request_interval - time_since_last
                      ELSE 0
    IN  current_time + sleep_time + late

\* the times of the last two upstream requests
Sent(time) == IF sent = <<>> THEN <<time>> ELSE <<sent[Len(sent)], time>>

\* NBAStatsAPI._make_request with its limiter: a request the cache answers
\* returns before _rate_limit is reached
MakeRequestLimited ==
    /\ \E key \in KeysOf("nba"), hours \in NbaMaxAgeHours, upstream \in Upstream("nba"),
          late \in Lateness :
           LET out == nba_make_request(store, key, hours, now, upstream)
               stamped == rate_limit(last_request_time, Time, late)
           IN  /\ store' = out.store
               /\ request' = Request("nba", key, hours * 3600, out)
               /\ lookup' = Lookup("nba", key, hours * 3600,
                                   nba_get_cached(store, key, hours, now))
               /\ lastSet' = RememberRequest(key, upstream, out)
               /\ IF out.fetch = "none"
                  THEN UNCHANGED rateVars
                  ELSE /\ clock + (stamped - Time) <= MaxClock
                       /\ clock' = clock + (stamped - Time)
                       /\ last_request_time' = stamped
                       /\ sent' = Sent(stamped)
    /\ op' = "make_request"
    /\ UNCHANGED <<now, forecastVars, valueVars>>

\* a tenth of a second passes
Elapse ==
    /\ clock < MaxClock
    /\ clock' = clock + 1
    /\ op' = "elapse"
    /\ UNCHANGED <<last_request_time, sent, cacheVars, forecastVars, valueVars>>

InitRateLimit ==
    /\ ForecastIdle
    /\ CacheIdle
    /\ ValueIdle
    /\ op = "init"

\* the ticks of this part: enough for an entry of one hour to expire
MaxRateTicks == 2

\* half an hour passes
HalfHour ==
    /\ now < MaxRateTicks
    /\ Tick

NextRateLimit ==
    \/ MakeRequestLimited
    \/ Elapse
    \/ HalfHour

SpecRateLimit == InitRateLimit /\ [][NextRateLimit]_vars

----------------------------------------------------------------------------
(* Claims about the cached requests.                                         *)

RequestOps == {"make_request", "get_nba_odds", "get_player_props"}

\* C13: a request whose upstream fetch fails leaves the entries of the
\* store exactly as they were before the request.
C13_FailedFetchLeavesEntries ==
    [][(op' \in RequestOps /\ request'.fetch = "failed")
           => store'.rows = store.rows]_vars

\* C13 witness: a request has failed upstream for a key whose expired entry
\* is still in the store.
C13_Witness ==
    /\ op \in RequestOps
    /\ request.fetch = "failed"
    /\ request.key \in DOMAIN store.rows
    /\ request.key \in DOMAIN lastSet
    /\ store.rows[request.key].data = json_dumps(lastSet[request.key].data)
    /\ store.rows[request.key].timestamp < request.at

\* before the step, a live entry of the key is younger than ttl seconds
FreshBefore(key, ttl) ==
    /\ key \in DOMAIN lastSet
    /\ lastSet[key].live
    /\ (now - lastSet[key].time) * TickSeconds < ttl

\* C14: while a fresh entry exists for its key, a request issues no
\* upstream fetch and returns the cached payload, whatever the payload,
\* an empty list or object included.
C14_FreshEntryServedWithoutFetch ==
    [][(op' \in RequestOps /\ FreshBefore(request'.key, request'.ttl))
           => /\ request'.fetch = "none"
              /\ request'.returned = lastSet[request'.key].data]_vars

----------------------------------------------------------------------------
(* Further claims about the value-matching pass.                             *)

\* the quoted lines that have a numeric forecast and a line that is not null
Quoted ==
    {ij \in (DOMAIN props) \X (1..2) :
        /\ props[ij[1]].has_data
        /\ ~IsNone(props[ij[1]].lines[ij[2]].betting_line)
        /\ ~IsNone(props[ij[1]].lines[ij[2]].prediction)}

\* C15: the pass records a comparison, with the deviation forecast - line,
\* for every player and category that has a numeric forecast and a line
\* that is not null, whatever the value of the line.
C15_EveryQuotedLineCompared ==
    (Matched /\ query.show_all) =>
        \A ij \in Quoted :
            LET l == props[ij[1]].lines[ij[2]]
            IN  \E i \in DOMAIN response.all_comparisons :
                    /\ response.all_comparisons[i].player = props[ij[1]].player
                    /\ response.all_comparisons[i].stat_type = l.stat_type
                    /\ response.all_comparisons[i].edge =
                           Round1(RSub(l.prediction, l.betting_line))

\* a is b with some elements left out, for lists that hold no element twice:
\* the elements of a are in b, in the same order
IsSubList(a, b) ==
    /\ \A i \in DOMAIN a : IsIn(a[i], b)
    /\ \A i \in 1..(Len(a) - 1) :
           (CHOOSE k \in DOMAIN b : b[k] = a[i])
               < (CHOOSE k \in DOMAIN b : b[k] = a[i + 1])

\* the comparison of a compared line of props is in the list
ComparisonIn(ij, list) ==
    \E i \in DOMAIN list :
        /\ list[i].player = props[ij[1]].player
        /\ list[i].stat_type = props[ij[1]].lines[ij[2]].stat_type

C16_WitnessAll ==
    /\ Matched
    /\ query.show_all
    /\ Len(response.all_comparisons) = response.stats.total_comparisons
    /\ 0 < Len(response.value_bets)
    /\ Len(response.value_bets) < Len(response.all_comparisons)

----------------------------------------------------------------------------
(* The naive forecasters: calculate_naive_prediction of phase_b_api,         *)
(* calculate_naive_average of phase_a_api and                                *)
(* NaivePredictions.predict_player_points of phase_a_core.                   *)

\* the values calculate_naive_prediction collects from games[:5]
RECURSIVE NaiveSample(_)
NaiveSample(gs) ==
    IF gs = <<>> THEN <<>>
    ELSE (IF FloatOfGetOk(Head(gs)) THEN <<Head(gs).val.v>> ELSE <<>>)
         \o NaiveSample(Tail(gs))

\* recent_games[-n:]
LastN(s, n) == SubSeq(s, Len(s) - Min2(n, Len(s)) + 1, Len(s))

\* the plain mean of the values and max(50, 100 - std_dev * 5), both
\* rounded to one decimal
naive_mean_and_confidence(recent) ==
    LET avg == R(ISum(recent), Len(recent))
        variance == R(SqDevSum([i \in 1..Len(recent) |-> [r |-> recent[i]]],
                               avg[1], avg[2]),
                      avg[2] * avg[2] * Len(recent))
        \* 100 - std_dev * 5 = 100 - sqrt(25 * variance)
        confidence == SurdMax(50, Surd(100, RMul(RInt(25), variance)))
    IN  [prediction |-> Round1(avg), confidence |-> SurdRound1(confidence)]

calculate_naive_prediction(gs, stat) ==
    IF Len(gs) < 3 THEN NoneResult
    ELSE LET recent == NaiveSample(Take(gs, 5))
         IN  IF Len(recent) < 3 THEN NoneResult
             ELSE [kind |-> "value",
                   prediction |-> naive_mean_and_confidence(recent).prediction,
                   confidence |-> naive_mean_and_confidence(recent).confidence]

calculate_naive_average(recent_games) ==
    IF Len(recent_games) < 3 THEN NoneResult
    ELSE LET last_5 == LastN(recent_games, 5)
         IN  [kind |-> "value",
              prediction |-> naive_mean_and_confidence(last_5).prediction,
              confidence |-> naive_mean_and_confidence(last_5).confidence]

predict_player_points(player_name, recent_games) ==
    IF Len(recent_games) < 3 THEN NoneResult
    ELSE LET last_5 == LastN(recent_games, 5)
         IN  [kind |-> "value",
              player |-> player_name,
              prediction |-> naive_mean_and_confidence(last_5).prediction,
              confidence |-> naive_mean_and_confidence(last_5).confidence,
              method |-> "naive_average_last_5"]

\* recent_games of the phase A functions is a list of numbers, the oldest
\* first: the values of games, when every record has one
RecentGames == [i \in 1..Len(games) |-> games[i].val.v]

AllNumbers == \A i \in 1..Len(games) : games[i].val.k = "num"

CalculateNaivePrediction ==
    /\ result' = calculate_naive_prediction(games, args.stat)
    /\ op' = "calculate_naive_prediction"
    /\ UNCHANGED <<rateVars, games, args, espn, injuries_by_team, cacheVars, valueVars>>

CalculateNaiveAverage ==
    /\ AllNumbers
    /\ result' = calculate_naive_average(RecentGames)
    /\ op' = "calculate_naive_average"
    /\ UNCHANGED <<rateVars, games, args, espn, injuries_by_team, cacheVars, valueVars>>

PredictPlayerPoints ==
    /\ AllNumbers
    /\ result' = predict_player_points(args.player_name, RecentGames)
    /\ op' = "predict_player_points"
    /\ UNCHANGED <<rateVars, games, args, espn, injuries_by_team, cacheVars, valueVars>>

InitNaive ==
    /\ games \in Histories
    /\ args \in {Args(s, None, TRUE, 1, Ray, "LAL") : s \in Stats}
    /\ espn = NoInjuries
    /\ injuries_by_team = NoInjuries
    /\ result = NoResult
    /\ CacheIdle
    /\ ValueIdle
    /\ op = "init"

NextNaive ==
    \/ CalculateNaivePrediction
    \/ CalculateNaiveAverage
    \/ PredictPlayerPoints

SpecNaive == InitNaive /\ [][NextNaive]_vars

NaiveOps ==
    {"calculate_naive_prediction", "calculate_naive_average", "predict_player_points"}

\* C17: the confidence the naive forecasters return is within [50, 95],
\* also for a history whose values are all equal.
C17_NaiveConfidenceInRange ==
    (op \in NaiveOps /\ result.kind = "value") =>
        /\ RLe(RInt(50), result.confidence)
        /\ RLe(result.confidence, RInt(95))

----------------------------------------------------------------------------
(* Further claims about the base forecast and the injury overlay.            *)

\* the recency positions (0 = most recent) of the records _calculate_base
\* does not skip: those among the first five whose value float() accepts
UsablePositions(gs) ==
    {i \in 0..(Min2(5, Len(gs)) - 1) : gs[i + 1].val.k # "bad"}

\* the value read at a position: the number, or the default 0 of a record
\* without the category
ValueAt(gs, i) == IF gs[i + 1].val.k = "num" THEN gs[i + 1].val.v ELSE 0

\* sum over the usable positions of f(i), f in tenths
WeightedTotal(gs, f(_)) ==
    ISum([k \in 1..5 |-> IF k - 1 \in UsablePositions(gs) THEN f(k - 1) ELSE 0])

\* sum(value_i * (1.0 - 0.1 i)) / sum(1.0 - 0.1 i) over the usable positions
WeightedMean(gs) ==
    R(WeightedTotal(gs, LAMBDA i : ValueAt(gs, i) * (10 - i)),
      WeightedTotal(gs, LAMBDA i : 10 - i))

OnlySubjectMatches ==
    LET rows == TeamInjuries(injuries_by_team, args.player_team)
    IN  \A i \in 1..Len(rows) :
            Contains(lower(args.player_name), lower(rows[i].player))
                => rows[i].player = args.player_name

\* C19: only the status OUT suppresses a forecast: a subject who is listed
\* with another status, or not listed, gets a numeric forecast from
\* predict_with_injuries whenever the history is sufficient.  Stated for
\* subjects whose name is part of no other listed name.
C19_OnlyOutSuppresses ==
    (op = "predict_with_injuries" /\ HistorySufficient /\ OnlySubjectMatches
        /\ ~SubjectListedOut) => result.kind = "value"

\* the number of players the snapshot lists on a team with status Out
OutCount(team) ==
    LET rows == TeamInjuries(injuries_by_team, team)
    IN  Cardinality({i \in 1..Len(rows) : rows[i].status = Out})

\* 0.3 * (players Out on the subject's team) + 0.2 * (players Out on the
\* opponent's team)
InjuriesTerm ==
    RAdd(R(3 * OutCount(args.player_team), 10), R(2 * OutCount(args.opponent), 10))

\* what predict_with_context returns for the same call
ContextForecast ==
    predict_with_context(games, args.stat, args.opponent, args.is_home, args.days_rest)

C20_WitnessZero ==
    /\ op = "predict_with_injuries"
    /\ result.kind = "value"
    /\ args.opponent = "WAS"
    /\ Len(TeamInjuries(injuries_by_team, "LAL")) = 1
    /\ Len(TeamInjuries(injuries_by_team, "WAS")) = 1
    /\ OutCount("LAL") = 0
    /\ OutCount("WAS") = 0
    /\ AdjustmentNamed(result, "injuries") = Zero
    /\ result.pred = ContextForecast.pred

----------------------------------------------------------------------------
(* Claims about the confidence and the minutes term.                         *)

\* the values of the sample _calculate_base collects from games
SampleValues(gs) ==
    LET sample == BaseSample(Take(gs, 5), 0)
    IN  [i \in 1..Len(sample) |-> sample[i].r]

\* 25 times the population variance of the values about their plain mean
PopulationVariance25(values) ==
    LET mean == R(ISum(values), Len(values))
    IN  RMul(RInt(25),
             R(SqDevSum([i \in 1..Len(values) |-> [r |-> values[i]]],
                        mean[1], mean[2]),
               mean[2] * mean[2] * Len(values)))

\* clamp(c, 50, 95)
Clamp5095(c) == SurdMax(50, SurdMin(95, c))

\* c0 + s + m of the claim, for a numeric result
ClaimedConfidence ==
    LET c0 == Clamp5095(Surd(100, PopulationVariance25(SampleValues(games))))
        s == IF Len(games) >= 10 THEN 5 ELSE IF Len(games) < 5 THEN -10 ELSE 0
        terms == result.breakdown.adjustments
        m == IF RLt(RInt(3), RSum([i \in 1..Len(terms) |-> RAbs(terms[i][2])]))
             THEN -5 ELSE 0
    IN  Clamp5095(SurdPlus(c0, s + m))

\* C21: the confidence predict_with_context returns is
\* clamp(c0 + s + m, 50, 95), to one decimal, with
\* c0 = clamp(100 - 5 * stddev, 50, 95) from the unweighted population
\* standard deviation of the sample, s = +5 for 10 or more records, -10 for
\* fewer than 5, and m = -5 when the absolute terms sum to more than 3.
C21_ConfidenceIsClampedSum ==
    (op = "predict_with_context" /\ result.kind = "value") =>
        result.confidence = SurdRound1(ClaimedConfidence)

\* the positions, among the five most recent records, that hold minutes
MinutesPositions(gs) == {k \in 1..Min2(5, Len(gs)) : gs[k].min # 0}

\* the mean of the minutes those records hold
MeanMinutes(gs) ==
    R(ISum([k \in 1..5 |-> IF k \in MinutesPositions(gs) THEN gs[k].min ELSE 0]),
      Cardinality(MinutesPositions(gs)))

\* base * -0.05 below 25, base * +0.03 above 35, 0 from 25 to 35
TermOfMean(base, mean) ==
    IF RLt(mean, RInt(25)) THEN RMul(base, R(-5, 100))
    ELSE IF RLt(RInt(35), mean) THEN RMul(base, R(3, 100))
    ELSE Zero

\* C22 as stated: the minutes term, recorded to two decimals, is
\* base * -0.05 when the mean of the minutes the last 5 records hold is
\* below 25, base * +0.03 when it is above 35 and 0 from 25 to 35.
C22_MinutesTermByMean ==
    (op = "predict_with_context" /\ result.kind = "value"
        /\ MinutesPositions(games) # {}) =>
        AdjustmentNamed(result, "minutes") =
            Round2(TermOfMean(WeightedMean(games), MeanMinutes(games)))

\* C22, amended: the same, when at least 3 of the last 5 records hold
\* minutes; with fewer than 3 the term is 0 whatever their mean.
C22_MinutesTermByMeanOfThree ==
    (op = "predict_with_context" /\ result.kind = "value") =>
        AdjustmentNamed(result, "minutes") =
            IF Cardinality(MinutesPositions(games)) < 3 THEN Zero
            ELSE Round2(TermOfMean(WeightedMean(games), MeanMinutes(games)))

\* C22 witness: a forecast on records of which only two hold minutes, of
\* mean 20: the term is 0 and not base * -0.05.
C22_Witness ==
    /\ op = "predict_with_context"
    /\ result.kind = "value"
    /\ Cardinality(MinutesPositions(games)) = 2
    /\ MeanMinutes(games) = RInt(20)
    /\ AdjustmentNamed(result, "minutes") = Zero
    /\ Round2(RMul(WeightedMean(games), R(-5, 100))) # Zero

\* C22 witness: forecasts whose mean of minutes is exactly 25 or exactly
\* 35: the term is 0.
C22_WitnessBound ==
    /\ op = "predict_with_context"
    /\ result.kind = "value"
    /\ MeanMinutes(games) \in {RInt(25), RInt(35)}
    /\ AdjustmentNamed(result, "minutes") = Zero

\* C22 witness: a forecast with a penalty, the mean of minutes below 25.
C22_WitnessPenalty ==
    /\ op = "predict_with_context"
    /\ result.kind = "value"
    /\ RLt(MeanMinutes(games), RInt(25))
    /\ RLt(AdjustmentNamed(result, "minutes"), Zero)

----------------------------------------------------------------------------
(* Further claims about the response cache.                                  *)

AllKeys == KeysOf("nba") \cup KeysOf("odds")

\* the step is a set of `key`: its row now holds the payload just set and
\* the time of the set, and the rows of the other keys are as before
ReplacesRowOf(key) ==
    /\ key \in DOMAIN lastSet'
    /\ lastSet'[key].time = now
    /\ DOMAIN store'.rows = DOMAIN store.rows \cup {key}
    /\ store'.rows[key].timestamp = now
    /\ store'.rows[key].data = json_dumps(lastSet'[key].data)
    /\ \A other \in DOMAIN store.rows \ {key} : store'.rows[other] = store.rows[other]

\* C23: the store holds at most one row per key (rows are keyed by
\* cache_key, the PRIMARY KEY), and a set of a key replaces payload and
\* timestamp of its row, the new timestamp being the time of the set, and
\* leaves the rows of the other keys unchanged.
C23_SetReplacesRow ==
    [][/\ DOMAIN store'.rows \subseteq AllKeys
       /\ op' = "set_cache" => \E key \in AllKeys : ReplacesRowOf(key)]_vars

\* C23 witness: the game-log row, looked up earlier with one payload, has
\* just been set again with another one and carries the time of the set,
\* while the odds row still carries its older timestamp.
C23_Witness ==
    /\ op = "set_cache"
    /\ lookup.key = "playergamelog"
    /\ lookup.at < now
    /\ lookup.result = Dict(<<2>>)
    /\ DOMAIN store.rows = AllKeys
    /\ store.rows["playergamelog"].timestamp = now
    /\ json_loads(store.rows["playergamelog"].data) = Dict(<<>>)
    /\ store.rows["nba_odds_current"].timestamp < lookup.at

----------------------------------------------------------------------------
(* The injury snapshot of SmartPredictorWithInjuries.                       *)

\* C24: the snapshot changes only in a step of refresh_injury_data; after
\* such a step it is exactly the fetched report (the page, or {} when the
\* fetch failed), whatever it held before; predict_with_injuries leaves it
\* as it was.
C24_SnapshotOnlyRefreshed ==
    [][/\ injuries_by_team' # injuries_by_team => op' = "refresh_injury_data"
       /\ op' = "refresh_injury_data" => injuries_by_team' \in {espn, NoInjuries}
       /\ op' = "predict_with_injuries" => injuries_by_team' = injuries_by_team]_vars

\* C24 witness: a forecast made from an earlier snapshot carries the term
\* 0.5 of one teammate and one opponent Out; a refresh has since replaced
\* that snapshot with a page that lists the subject's team only, and the
\* opponent's rows are gone.
C24_Witness ==
    /\ op = "refresh_injury_data"
    /\ result.kind = "value"
    /\ args.opponent = "WAS"
    /\ AdjustmentNamed(result, "injuries") = R(5, 10)
    /\ DOMAIN espn = {"LAL"}
    /\ injuries_by_team = espn

\* C24 witness: the refresh after that forecast failed, and the snapshot is
\* empty although the page is not.
C24_WitnessFailed ==
    /\ op = "refresh_injury_data"
    /\ result.kind = "value"
    /\ args.opponent = "WAS"
    /\ AdjustmentNamed(result, "injuries") = R(5, 10)
    /\ espn # NoInjuries
    /\ injuries_by_team = NoInjuries

----------------------------------------------------------------------------
(* Further claims about the cached requests.                                 *)

\* the age in seconds, before the step, of the live entry of the key
AgeBefore(key) == (now - lastSet[key].time) * TickSeconds

\* C25: a game-log request is answered from the cache only while the cached
\* payload is less than 2 hours old; at an age of 2 hours or more it is a
\* miss and asks upstream again.
C25_GameLogServedUnderTwoHours ==
    [][(/\ op' = "fetch_season_games"
        /\ request'.key \in DOMAIN lastSet
        /\ lastSet[request'.key].live)
           => (request'.fetch = "none" => AgeBefore(request'.key) < 2 * 3600)]_vars

\* C26: the cache heals after a forced refresh: a request made on the
\* cleared store misses without an error, and when its upstream fetch
\* succeeds the set of the fetched payload succeeds too, so that the
\* payload is in the store after the request.
C26_CacheHealsAfterForcedRefresh ==
    [][(/\ op' \in RequestOps \cup {"fetch_season_games"}
        /\ store = EmptyStore
        /\ request'.fetch = "ok")
           => /\ ~request'.raised
              /\ request'.key \in DOMAIN store'.rows]_vars

\* C27: two consecutive upstream requests of one NBAStatsAPI through
\* _make_request are at least min_request_interval apart, and a request
\* answered from the cache issues no upstream request and leaves
\* last_request_time as it was.
C27_RequestsSpacedByInterval ==
    [][op' = "make_request" =>
           IF request'.fetch = "none"
           THEN last_request_time' = last_request_time /\ sent' = sent
           ELSE /\ last_request_time' = sent'[Len(sent')]
                /\ sent # <<>> =>
                       sent'[Len(sent')] - sent[Len(sent)] >= min_request_interval]_vars

\* C27 witness: the second of two upstream requests had to wait: it was
\* called 0.2 s after the first one and went out exactly 0.6 s after it.
C27_Witness ==
    /\ op = "make_request"
    /\ request.fetch # "none"
    /\ Len(sent) = 2
    /\ sent[2] - sent[1] = min_request_interval
    /\ last_request_time = sent[2]
    /\ Time = sent[2]

\* C27 witness: a request was answered from the cache 0.1 s after the
\* upstream request that filled it, without a pause and without a stamp.
C27_WitnessCached ==
    /\ op = "make_request"
    /\ request.fetch = "none"
    /\ sent # <<>>
    /\ last_request_time = sent[Len(sent)]
    /\ Time = last_request_time + 1

\* C28: a cache lookup inserts, deletes and alters no entry: the rows after
\* a lookup are the rows before it, an expired one included; the rows
\* change only in a set or in a forced refresh.
C28_LookupLeavesEntries ==
    [][/\ op' = "get_cached" => store'.rows = store.rows
       /\ store'.rows # store.rows => op' \in {"set_cache", "force_refresh"}]_vars

\* C28 witness: a lookup has just missed on an expired entry, and the entry
\* is still in the store with the payload and the timestamp of its set.
C28_Witness ==
    /\ op = "get_cached"
    /\ lookup.at = now
    /\ lookup.result = PyNone
    /\ lookup.key \in DOMAIN store.rows
    /\ lookup.key \in DOMAIN lastSet
    /\ (now - store.rows[lookup.key].timestamp) * TickSeconds >= lookup.ttl
    /\ store.rows[lookup.key].data = json_dumps(lastSet[lookup.key].data)
    /\ store.rows[lookup.key].timestamp = lastSet[lookup.key].time

----------------------------------------------------------------------------
(* Further claims about predict_with_injuries.                               *)

\* C29: called without an opponent, predict_with_injuries applies no
\* opponent boost: the term 'injuries' is 0.3 * (players Out on the
\* subject's team), no player being counted for both boosts, and the final
\* value is the context-adjusted forecast plus that term.
C29_NoOpponentOwnBoostOnly ==
    (op = "predict_with_injuries" /\ result.kind = "value" /\ args.opponent = None) =>
        /\ AdjustmentNamed(result, "injuries") = R(3 * OutCount(args.player_team), 10)
        /\ result.pred = RAdd(ContextForecast.pred, R(3 * OutCount(args.player_team), 10))

\* the snapshot holds a record of the subject on the subject's team
SubjectListed ==
    LET rows == TeamInjuries(injuries_by_team, args.player_team)
    IN  \E i \in 1..Len(rows) : lower(rows[i].player) = lower(args.player_name)

\* C30: predict_with_injuries withholds a forecast that predict_with_context
\* gives only because of a record of the subject: the record of another
\* player, such as a teammate whose name contains the subject's name, never
\* makes the subject unavailable.
C30_SuppressedOnlyBySubjectRecord ==
    (op = "predict_with_injuries" /\ ContextForecast.kind = "value"
        /\ result.kind = "none") => SubjectListed

============================================================================
